---- MODULE Spec2Model ----
(***************************************************************************)
(* Model of email_to_remarkable.py: EmailToRemarkableSync, one            *)
(* synchronization pass (process_emails) over an IMAP mailbox, the        *)
(* scratch directory and the reMarkable storage client.                   *)
(*                                                                         *)
(* Collaborators.  The IMAP server changes a message's \Seen flag only on *)
(* STORE; every IMAP command either returns or raises imaplib.IMAP4.error *)
(* (SELECT may also answer NO without raising, as imaplib does).  The     *)
(* storage client may raise at construction, at get_documents, at        *)
(* Document.new_pdf and at upload.  The scratch directory is writable and *)
(* os.remove of an existing file succeeds; logout returns.                *)
(***************************************************************************)
EXTENDS Integers, Sequences, FiniteSets, TLC

VARIABLES
    config,      \* self.config: key -> value (Absent when the key is not in the dict)
    tokenFile,   \* state of the file at remarkable_token_path
    folders,     \* api.document_collections after get_documents, in listing order
    mailbox,     \* server side: sequence of messages, each with its \Seen flag
    pc,          \* position of the program
    ctorError,   \* ValueError raised by the constructor (error "none" when none was)
    rmApi,       \* rm_api in process_emails: None or the client (with its token)
    mail,        \* mail in process_emails: "none", "open" (IMAP4_SSL returned), "loggedout"
    selected,    \* the IMAP session is in SELECTED state
    unread,      \* unread_email_ids
    idx,         \* position of the for loop over unread_email_ids (1-based)
    downloaded,  \* downloaded_files of the current message
    upIdx,       \* position of the for loop over downloaded_files (1-based)
    allOk,       \* all_uploads_succeeded
    scratch,     \* download_dir: filename -> bytes (NoFile when absent)
    result,      \* return value of process_emails ("none" before it returns)
    raised,      \* exception that ended the pass body: "none", "imap", "other", "upload"
    imapLog,     \* the connection attempt and the IMAP commands issued, in order
    uploadLog,   \* upload_to_remarkable calls, in order, with their return value
    extractLog,  \* downloaded_files of every message the extraction finished for
    lastStage,   \* the statement at which the latest upload_to_remarkable call ended
    cloud,       \* documents submitted with api.upload, in order
    refused,     \* some upload_to_remarkable call of this pass ended in the storage client
    pass,        \* number of the current run of the program (1-based)
    prevUploads  \* uploadLog of the previous run

vars == <<config, tokenFile, folders, mailbox, pc, ctorError, rmApi, mail, selected,
          unread, idx, downloaded, upIdx, allOk, scratch, result, raised,
          imapLog, uploadLog, extractLog, lastStage, cloud, refused, pass, prevUploads>>

----------------------------------------------------------------------------
(* Bounds of the model *)

\* messages in the mailbox
MaxMsgs == 2
\* parts in the mailbox, over all its messages
MaxParts == 3
\* runs of the program
MaxPasses == 2

----------------------------------------------------------------------------
(* Configuration: __init__, _validate_config, load_config *)

Absent == "<absent>"
None == "<None>"

required_keys ==
    <<"imap_server", "email_username", "email_password", "mailbox_to_check",
      "remarkable_dest_folder">>

RequiredKeySet == {required_keys[i] : i \in 1..Len(required_keys)}

ConfigKeys == RequiredKeySet \cup {"remarkable_token"}

ConfigValues == {Absent, "", "x"}

Truthy(v) == v # Absent /\ v # None /\ v # ""

\* FirstMissing with the loop ending one key early
RECURSIVE FirstMissingStopsEarly(_, _)
FirstMissingStopsEarly(cfg, i) ==
    IF i >= Len(required_keys) THEN None
    ELSE IF cfg[required_keys[i]] = Absent THEN required_keys[i]
    ELSE FirstMissingStopsEarly(cfg, i + 1)

\* the for loop of _validate_config: the first key of required_keys not in the dict
RECURSIVE FirstMissing(_, _)
FirstMissing(cfg, i) ==
    IF i > Len(required_keys) THEN None
    ELSE IF cfg[required_keys[i]] = Absent THEN required_keys[i]
    ELSE FirstMissing(cfg, i + 1)

\* ValidateConfig without the test of the password (lines 40-41)
ValidateConfigSkipPassword(cfg) ==
    IF FirstMissing(cfg, 1) # None
    THEN [error |-> "missing", key |-> FirstMissing(cfg, 1)]
    ELSE [error |-> "ok", key |-> None]

\* _validate_config: "ok", or the ValueError it raises
ValidateConfig(cfg) ==
    IF FirstMissing(cfg, 1) # None
    THEN [error |-> "missing", key |-> FirstMissing(cfg, 1)]
    ELSE IF ~Truthy(cfg["email_password"])
    THEN [error |-> "password", key |-> "email_password"]
    ELSE [error |-> "ok", key |-> None]

\* load_config: os.getenv(name, default) for every key; env maps a key to the value
\* of its environment variable (Absent when unset)
ConfigDefaults ==
    [k \in ConfigKeys |->
        IF k \in {"imap_server", "mailbox_to_check", "remarkable_dest_folder"}
        THEN "x" ELSE ""]

load_config(env) ==
    [k \in ConfigKeys |-> IF env[k] = Absent THEN ConfigDefaults[k] ELSE env[k]]

----------------------------------------------------------------------------
(* Messages and attachments *)

NoFile == <<>>

PdfA == [maintype |-> "application", disposition |-> TRUE, ctype |-> "application/pdf",
         filename |-> "a.pdf", bytes |-> TRUE]
PdfB == [maintype |-> "application", disposition |-> TRUE, ctype |-> "application/pdf",
         filename |-> "b.pdf", bytes |-> TRUE]
TextBody == [maintype |-> "text", disposition |-> FALSE, ctype |-> "text/plain",
             filename |-> "", bytes |-> TRUE]

PdfParts == {PdfA, PdfB}

Filenames == {"a.pdf", "b.pdf"}

\* lines 177-187: the part is written to scratch and appended to downloaded_files
Qualifies(part) ==
    /\ ~(part.maintype = "multipart" \/ ~part.disposition)
    /\ part.ctype = "application/pdf"
    /\ part.filename # ""
    /\ part.bytes

Message(raw, subject, parts) == [raw |-> raw, subject |-> subject, parts |-> parts]

\* sequences of at most n elements of S
RECURSIVE SeqsUpTo(_, _)
SeqsUpTo(S, n) ==
    IF n = 0 THEN {<<>>}
    ELSE LET shorter == SeqsUpTo(S, n - 1)
         IN  shorter \cup {Append(q, x) : q \in shorter, x \in S}

\* what the server holds for a message id: the payload fetch returns for it
\* ("bytes": an RFC822 message; "nonbytes": a payload that is not bytes; "none":
\* msg_data[0] is None), its Subject header and the parts msg.walk() yields
Messages ==
    {Message("bytes", "plain", ps) : ps \in SeqsUpTo(PdfParts, MaxParts)}
    \cup {Message("bytes", "plain", ps) : ps \in {<<TextBody>>, <<TextBody, PdfA>>}}
    \cup {Message("bytes", s, <<PdfA>>) : s \in {"encoded", "missing", "badcharset"}}
    \cup {Message(r, "plain", <<>>) : r \in {"nonbytes", "none"}}

RECURSIVE TotalParts(_)
TotalParts(q) == IF q = <<>> THEN 0 ELSE Len(Head(q).parts) + TotalParts(Tail(q))

\* the mailboxes of at most MaxMsgs messages, all unread, with at most MaxParts
\* parts in all
Mailboxes ==
    {[i \in 1..Len(q) |-> [msg |-> q[i], seen |-> FALSE]] :
        q \in {r \in SeqsUpTo(Messages, MaxMsgs) : TotalParts(r) <= MaxParts}}

\* decode_subject (lines 43-49): TRUE when it returns, FALSE when it raises
\* (decode_header(None) for a missing header, bytes.decode with an unknown codec)
DecodeSubjectReturns(subject) == subject \in {"plain", "encoded"}

\* lines 175-191: the paths appended to downloaded_files, in walk order
RECURSIVE ExtractPaths(_)
ExtractPaths(parts) ==
    IF parts = <<>> THEN <<>>
    ELSE IF Qualifies(Head(parts))
         THEN <<Head(parts).filename>> \o ExtractPaths(Tail(parts))
         ELSE ExtractPaths(Tail(parts))

\* lines 185-189: scratch after the parts from position i on were written; the
\* bytes of part i of message id are named <<id, i>>
RECURSIVE ExtractWrites(_, _, _, _)
ExtractWrites(dir, id, parts, i) ==
    IF i > Len(parts) THEN dir
    ELSE IF Qualifies(parts[i])
         THEN ExtractWrites([dir EXCEPT ![parts[i].filename] = <<id, i>>], id, parts, i + 1)
         ELSE ExtractWrites(dir, id, parts, i + 1)

----------------------------------------------------------------------------
(* Storage: _setup_remarkable_api, upload_to_remarkable *)

Whitespace == {" ", "\n"}

\* str.strip() on a sequence of characters
RECURSIVE LStrip(_)
LStrip(cs) == IF cs # <<>> /\ Head(cs) \in Whitespace THEN LStrip(Tail(cs)) ELSE cs

RECURSIVE RStrip(_)
RStrip(cs) ==
    IF cs # <<>> /\ cs[Len(cs)] \in Whitespace
    THEN RStrip(SubSeq(cs, 1, Len(cs) - 1)) ELSE cs

Strip(cs) == RStrip(LStrip(cs))

\* the token file: "missing" (open raises FileNotFoundError), "unreadable" (open
\* raises another OSError), or "file" with its contents
TokenFile(state, contents) == [state |-> state, contents |-> contents]
TokenFileContents == {<<"t">>, <<" ", "t", "\n">>, <<>>, <<" ", "\n">>}
TokenFiles ==
    {TokenFile("missing", <<>>), TokenFile("unreadable", <<>>)}
    \cup {TokenFile("file", cs) : cs \in TokenFileContents}

ConfigToken == <<"c">>

\* the return value of _setup_remarkable_api: None, or the client and its token
NoClient == [client |-> FALSE, token |-> <<>>]
Client(token) == [client |-> TRUE, token |-> token]

\* _setup_remarkable_api (lines 96-128).
\* apiOk: API(...) returns; docsOk: get_documents() returns
SetupRemarkableApi(cfg, file, apiOk, docsOk) ==
    IF ~apiOk THEN NoClient
    ELSE IF Truthy(cfg["remarkable_token"])
    THEN (IF docsOk THEN Client(ConfigToken) ELSE NoClient)
    ELSE IF file.state \in {"missing", "unreadable"} THEN NoClient
    ELSE IF docsOk THEN Client(Strip(file.contents)) ELSE NoClient

\* FirstMatch without the break: the last collection of that name
RECURSIVE LastMatch(_, _)
LastMatch(colls, name) ==
    IF colls = <<>> THEN None
    ELSE IF colls[Len(colls)].visible_name = name THEN colls[Len(colls)].uuid
    ELSE LastMatch(SubSeq(colls, 1, Len(colls) - 1), name)

\* lines 73-86: the parent of the new document
RECURSIVE FirstMatch(_, _)
FirstMatch(colls, name) ==
    IF colls = <<>> THEN None
    ELSE IF Head(colls).visible_name = name THEN Head(colls).uuid
    ELSE FirstMatch(Tail(colls), name)

DocParent(colls, destination_folder) ==
    IF Truthy(destination_folder) THEN FirstMatch(colls, destination_folder) ELSE None

\* os.path.splitext(os.path.basename(pdf_path))[0]
DocName(filename) ==
    CASE filename = "a.pdf" -> "a"
      [] filename = "b.pdf" -> "b"
      [] OTHER -> filename

UploadFaults == {"none", "new_pdf", "upload"}

NoDoc == [name |-> "", data |-> NoFile, parent |-> None]

\* upload_to_remarkable (lines 65-94): its return value, the statement that raised
\* ("done" when none did) and the document api.upload accepted (NoDoc when
\* api.upload was not reached or raised)
UploadToRemarkable(dir, colls, pdf_path, destination_folder, fault) ==
    IF dir[pdf_path] = NoFile THEN [ok |-> FALSE, stage |-> "open", doc |-> NoDoc]
    ELSE IF fault = "new_pdf" THEN [ok |-> FALSE, stage |-> "new_pdf", doc |-> NoDoc]
    ELSE IF fault = "upload" THEN [ok |-> FALSE, stage |-> "upload", doc |-> NoDoc]
    ELSE [ok |-> TRUE, stage |-> "done",
          doc |-> [name |-> DocName(pdf_path), data |-> dir[pdf_path],
                   parent |-> DocParent(colls, destination_folder)]]

Collection(name, uuid) == [visible_name |-> name, uuid |-> uuid]

FolderListings ==
    {<<>>, <<Collection("x", "u1")>>, <<Collection("y", "u1"), Collection("x", "u2")>>,
     <<Collection("x", "u1"), Collection("x", "u2")>>}

----------------------------------------------------------------------------
(* The program: main, __init__, process_emails *)

NoScratch == [f \in Filenames |-> NoFile]

InitFrom(configs, tokenFiles, listings, mailboxes) ==
    /\ config \in configs
    /\ tokenFile \in tokenFiles
    /\ folders \in listings
    /\ mailbox \in mailboxes
    /\ pc = "new"
    /\ ctorError = [error |-> "none", key |-> None]
    /\ rmApi = NoClient
    /\ mail = "none"
    /\ selected = FALSE
    /\ unread = <<>>
    /\ idx = 1
    /\ downloaded = <<>>
    /\ upIdx = 1
    /\ allOk = TRUE
    /\ scratch = NoScratch
    /\ result = "none"
    /\ raised = "none"
    /\ imapLog = <<>>
    /\ uploadLog = <<>>
    /\ extractLog = <<>>
    /\ lastStage = "none"
    /\ cloud = <<>>
    /\ refused = FALSE
    /\ pass = 1
    /\ prevUploads = <<>>

Cmd(name, id) == [cmd |-> name, id |-> id]

\* an exception leaves the try body (lines 223-228): the handler returns False and
\* the finally clause is next
Raise(kind) ==
    /\ pc' = "finally"
    /\ result' = "False"
    /\ raised' = kind

\* the for loop over unread_email_ids moves on (continue, or the end of the body);
\* after the last id the pass returns True (line 221)
NextMessage ==
    /\ idx' = idx + 1
    /\ IF idx + 1 > Len(unread)
       THEN /\ pc' = "finally"
            /\ result' = "True"
       ELSE /\ pc' = "fetch"
            /\ UNCHANGED result
    /\ UNCHANGED raised

\* the server sets \Seen on message id
SetSeen(box, id) == [box EXCEPT ![id].seen = TRUE]

\* __init__ (lines 21-24)
Construct ==
    /\ pc = "new"
    /\ LET v == ValidateConfig(config)
       IN  IF v.error = "ok"
           THEN pc' = "constructed" /\ UNCHANGED ctorError
           ELSE pc' = "ctor_error" /\ ctorError' = v
    /\ UNCHANGED <<config, tokenFile, folders, mailbox, rmApi, mail, selected, unread,
                   idx, downloaded, upIdx, allOk, scratch, result, raised, imapLog,
                   uploadLog, extractLog, lastStage, cloud, refused, pass, prevUploads>>

\* what a pass does not change: the settings, and the record of earlier runs
environment == <<config, tokenFile, folders, pass, prevUploads>>
loopState == <<unread, idx, downloaded, upIdx, allOk>>

\* SetupStorage without the test of rm_api (lines 143-144)
SetupStorageNoCheck ==
    /\ pc = "constructed"
    /\ \E apiOk, docsOk \in BOOLEAN :
         /\ rmApi' = SetupRemarkableApi(config, tokenFile, apiOk, docsOk)
         /\ pc' = "connect"
         /\ UNCHANGED result
    /\ UNCHANGED <<environment, mailbox, ctorError, mail, selected, loopState, scratch,
                   raised, imapLog, uploadLog, extractLog, lastStage, cloud, refused>>

\* process_emails up to the storage set-up (lines 137-144)
SetupStorage ==
    /\ pc = "constructed"
    /\ \E apiOk, docsOk \in BOOLEAN :
         LET api == SetupRemarkableApi(config, tokenFile, apiOk, docsOk)
         IN  /\ rmApi' = api
             /\ IF api.client
                THEN pc' = "connect" /\ UNCHANGED result
                ELSE pc' = "returned" /\ result' = "False"
    /\ UNCHANGED <<environment, mailbox, ctorError, mail, selected, loopState, scratch,
                   raised, imapLog, uploadLog, extractLog, lastStage, cloud, refused>>

\* mail = imaplib.IMAP4_SSL(...) (lines 147-150)
Connect ==
    /\ pc = "connect"
    /\ imapLog' = Append(imapLog, Cmd("connect", 0))
    /\ \/ /\ mail' = "open"
          /\ pc' = "login"
          /\ UNCHANGED <<result, raised>>
       \/ /\ Raise("other")
          /\ UNCHANGED mail
    /\ UNCHANGED <<environment, mailbox, ctorError, rmApi, selected, loopState, scratch,
                   uploadLog, extractLog, lastStage, cloud, refused>>

\* mail.login(...) (line 151)
Login ==
    /\ pc = "login"
    /\ imapLog' = Append(imapLog, Cmd("login", 0))
    /\ \/ pc' = "select" /\ UNCHANGED <<result, raised>>
       \/ Raise("imap")
    /\ UNCHANGED <<environment, mailbox, ctorError, rmApi, mail, selected, loopState,
                   scratch, uploadLog, extractLog, lastStage, cloud, refused>>

\* mail.select(...) (lines 152-153): OK, NO (returned, not raised) or an error
Select ==
    /\ pc = "select"
    /\ imapLog' = Append(imapLog, Cmd("select", 0))
    /\ \/ pc' = "search" /\ selected' = TRUE /\ UNCHANGED <<result, raised>>
       \/ pc' = "search" /\ selected' = FALSE /\ UNCHANGED <<result, raised>>
       \/ Raise("imap") /\ UNCHANGED selected
    /\ UNCHANGED <<environment, mailbox, ctorError, rmApi, mail, loopState, scratch,
                   uploadLog, extractLog, lastStage, cloud, refused>>

\* the ids the server lists for UNSEEN, in mailbox order
RECURSIVE Unseen(_, _)
Unseen(box, i) ==
    IF i > Len(box) THEN <<>>
    ELSE IF box[i].seen THEN Unseen(box, i + 1)
    ELSE <<i>> \o Unseen(box, i + 1)

\* Search with the early return reporting failure
SearchEmptyReturnsFalse ==
    /\ pc = "search"
    /\ imapLog' = Append(imapLog, Cmd("search", 0))
    /\ \/ /\ selected
          /\ unread' = Unseen(mailbox, 1)
          /\ IF unread' = <<>>
             THEN pc' = "finally" /\ result' = "False"
             ELSE pc' = "fetch" /\ UNCHANGED result
          /\ UNCHANGED raised
       \/ Raise("imap") /\ UNCHANGED unread
    /\ idx' = 1
    /\ UNCHANGED <<environment, mailbox, ctorError, rmApi, mail, selected, downloaded,
                   upIdx, allOk, scratch, uploadLog, extractLog, lastStage, cloud, refused>>

\* mail.search(None, "UNSEEN") and the early return (lines 155-162); SEARCH is
\* illegal outside SELECTED state and then raises
Search ==
    /\ pc = "search"
    /\ imapLog' = Append(imapLog, Cmd("search", 0))
    /\ \/ /\ selected
          /\ unread' = Unseen(mailbox, 1)
          /\ IF unread' = <<>>
             THEN pc' = "finally" /\ result' = "True"
             ELSE pc' = "fetch" /\ UNCHANGED result
          /\ UNCHANGED raised
       \/ Raise("imap") /\ UNCHANGED unread
    /\ idx' = 1
    /\ UNCHANGED <<environment, mailbox, ctorError, rmApi, mail, selected, downloaded,
                   upIdx, allOk, scratch, uploadLog, extractLog, lastStage, cloud, refused>>

\* Fetch with a payload that is not bytes handled as a message without attachment
FetchNonBytesNoAttachments ==
    /\ pc = "fetch"
    /\ imapLog' = Append(imapLog, Cmd("fetch", unread[idx]))
    /\ \/ /\ mailbox[unread[idx]].msg.raw = "bytes"
          /\ pc' = "parse"
          /\ UNCHANGED <<idx, result, raised>>
       \/ /\ mailbox[unread[idx]].msg.raw = "nonbytes"
          /\ pc' = "noattach"
          /\ UNCHANGED <<idx, result, raised>>
       \/ /\ mailbox[unread[idx]].msg.raw = "none"
          /\ Raise("other")
          /\ UNCHANGED idx
       \/ /\ Raise("imap")
          /\ UNCHANGED idx
    /\ UNCHANGED <<environment, mailbox, ctorError, rmApi, mail, selected, unread,
                   downloaded, upIdx, allOk, scratch, uploadLog, extractLog, lastStage, cloud, refused>>

\* mail.fetch(email_id, "(RFC822)") and the payload test (lines 166-171)
Fetch ==
    /\ pc = "fetch"
    /\ imapLog' = Append(imapLog, Cmd("fetch", unread[idx]))
    /\ \/ /\ mailbox[unread[idx]].msg.raw = "bytes"
          /\ pc' = "parse"
          /\ UNCHANGED <<idx, result, raised>>
       \/ /\ mailbox[unread[idx]].msg.raw = "nonbytes"
          /\ NextMessage
       \/ /\ mailbox[unread[idx]].msg.raw = "none"
          /\ Raise("other")
          /\ UNCHANGED idx
       \/ /\ Raise("imap")
          /\ UNCHANGED idx
    /\ UNCHANGED <<environment, mailbox, ctorError, rmApi, mail, selected, unread,
                   downloaded, upIdx, allOk, scratch, uploadLog, extractLog, lastStage, cloud, refused>>

\* decode_subject and the extraction of the attachments (lines 172-193)
Extract ==
    /\ pc = "parse"
    /\ LET id == unread[idx]
           msg == mailbox[id].msg
       IN  IF DecodeSubjectReturns(msg.subject)
           THEN /\ downloaded' = ExtractPaths(msg.parts)
                /\ scratch' = ExtractWrites(scratch, id, msg.parts, 1)
                /\ extractLog' = Append(extractLog, [msg |-> id, paths |-> downloaded'])
                /\ pc' = IF downloaded' = <<>> THEN "noattach" ELSE "upload"
                /\ UNCHANGED <<result, raised>>
           ELSE /\ Raise("other")
                /\ UNCHANGED <<downloaded, scratch, extractLog>>
    /\ upIdx' = 1
    /\ allOk' = TRUE
    /\ UNCHANGED <<environment, mailbox, ctorError, rmApi, mail, selected, unread, idx,
                   imapLog, uploadLog, lastStage, cloud, refused>>

\* mail.store(email_id, "+FLAGS", "(\\Seen)"): the flag is set, or the command raises
Store(id) ==
    /\ imapLog' = Append(imapLog, Cmd("store", id))
    /\ \/ /\ mailbox' = SetSeen(mailbox, id)
          /\ NextMessage
       \/ /\ Raise("imap")
          /\ UNCHANGED <<mailbox, idx>>

\* MarkReadNoAttachments without the store
SkipNoAttachments ==
    /\ pc = "noattach"
    /\ NextMessage
    /\ UNCHANGED <<environment, mailbox, ctorError, rmApi, mail, selected, unread,
                   downloaded, upIdx, allOk, scratch, imapLog, uploadLog, extractLog,
                   lastStage, cloud, refused>>

\* no attachment: the message is marked read (lines 193-196)
MarkReadNoAttachments ==
    /\ pc = "noattach"
    /\ Store(unread[idx])
    /\ UNCHANGED <<environment, ctorError, rmApi, mail, selected, unread, downloaded,
                   upIdx, allOk, scratch, uploadLog, extractLog, lastStage, cloud, refused>>

UploadEntry(id, path, r) == [msg |-> id, path |-> path, ok |-> r.ok]

\* UploadOne with upload_to_remarkable raising instead of returning False
UploadOneRaises ==
    /\ pc = "upload"
    /\ \E fault \in UploadFaults :
         LET path == downloaded[upIdx]
             r == UploadToRemarkable(scratch, folders, path,
                                     config["remarkable_dest_folder"], fault)
         IN  /\ uploadLog' = Append(uploadLog, UploadEntry(unread[idx], path, r))
             /\ lastStage' = r.stage
             /\ refused' = (refused \/ r.stage \in {"new_pdf", "upload"})
             /\ IF r.ok
                THEN /\ cloud' = Append(cloud, r.doc)
                     /\ scratch' = [scratch EXCEPT ![path] = NoFile]
                     /\ upIdx' = upIdx + 1
                     /\ pc' = IF upIdx + 1 > Len(downloaded) THEN "decide" ELSE "upload"
                     /\ UNCHANGED <<allOk, result, raised>>
                ELSE /\ Raise("upload")
                     /\ UNCHANGED <<cloud, scratch, upIdx, allOk>>
    /\ UNCHANGED <<environment, mailbox, ctorError, rmApi, mail, selected, unread, idx,
                   downloaded, imapLog, extractLog>>

\* one iteration of the for loop over downloaded_files (lines 200-207)
UploadOne ==
    /\ pc = "upload"
    /\ \E fault \in UploadFaults :
         LET path == downloaded[upIdx]
             r == UploadToRemarkable(scratch, folders, path,
                                     config["remarkable_dest_folder"], fault)
         IN  /\ uploadLog' = Append(uploadLog, UploadEntry(unread[idx], path, r))
             /\ lastStage' = r.stage
             /\ refused' = (refused \/ r.stage \in {"new_pdf", "upload"})
             /\ IF r.ok
                THEN /\ cloud' = Append(cloud, r.doc)
                     /\ scratch' = [scratch EXCEPT ![path] = NoFile]
                     /\ UNCHANGED allOk
                ELSE /\ allOk' = FALSE
                     /\ UNCHANGED <<cloud, scratch>>
    /\ upIdx' = upIdx + 1
    /\ pc' = IF upIdx + 1 > Len(downloaded) THEN "decide" ELSE "upload"
    /\ UNCHANGED <<environment, mailbox, ctorError, rmApi, mail, selected, unread, idx,
                   downloaded, result, raised, imapLog, extractLog>>

\* Decide marking the message read whatever all_uploads_succeeded is
DecideAlwaysStore ==
    /\ pc = "decide"
    /\ Store(unread[idx])
    /\ UNCHANGED <<environment, ctorError, rmApi, mail, selected, unread, downloaded,
                   upIdx, allOk, scratch, uploadLog, extractLog, lastStage, cloud, refused>>

\* after the last attachment (lines 209-219)
Decide ==
    /\ pc = "decide"
    /\ IF allOk
       THEN Store(unread[idx])
       ELSE NextMessage /\ UNCHANGED <<mailbox, imapLog>>
    /\ UNCHANGED <<environment, ctorError, rmApi, mail, selected, unread, downloaded,
                   upIdx, allOk, scratch, uploadLog, extractLog, lastStage, cloud, refused>>

\* Finally with the logout on the normal path only
FinallyLogoutUnlessRaised ==
    /\ pc = "finally"
    /\ IF mail = "open" /\ raised = "none"
       THEN mail' = "loggedout" /\ imapLog' = Append(imapLog, Cmd("logout", 0))
       ELSE UNCHANGED <<mail, imapLog>>
    /\ pc' = "returned"
    /\ UNCHANGED <<environment, mailbox, ctorError, rmApi, selected, loopState, scratch,
                   result, raised, uploadLog, extractLog, lastStage, cloud, refused>>

\* the finally clause (lines 229-232), then process_emails returns
Finally ==
    /\ pc = "finally"
    /\ IF mail = "open"
       THEN mail' = "loggedout" /\ imapLog' = Append(imapLog, Cmd("logout", 0))
       ELSE UNCHANGED <<mail, imapLog>>
    /\ pc' = "returned"
    /\ UNCHANGED <<environment, mailbox, ctorError, rmApi, selected, loopState, scratch,
                   result, raised, uploadLog, extractLog, lastStage, cloud, refused>>

Next ==
    \/ Construct
    \/ SetupStorage
    \/ Connect
    \/ Login
    \/ Select
    \/ Search
    \/ Fetch
    \/ Extract
    \/ MarkReadNoAttachments
    \/ UploadOne
    \/ Decide
    \/ Finally

\* the program is run again (main, lines 252-264): a new object and a new pass;
\* the mailbox, the scratch directory and the storage service are as the last
\* run left them
NewPass ==
    /\ pc = "returned"
    /\ pass < MaxPasses
    /\ pass' = pass + 1
    /\ prevUploads' = uploadLog
    /\ pc' = "new"
    /\ rmApi' = NoClient
    /\ mail' = "none"
    /\ selected' = FALSE
    /\ unread' = <<>>
    /\ idx' = 1
    /\ downloaded' = <<>>
    /\ upIdx' = 1
    /\ allOk' = TRUE
    /\ result' = "none"
    /\ raised' = "none"
    /\ imapLog' = <<>>
    /\ uploadLog' = <<>>
    /\ extractLog' = <<>>
    /\ lastStage' = "none"
    /\ refused' = FALSE
    /\ UNCHANGED <<config, tokenFile, folders, mailbox, ctorError, scratch, cloud>>

NextRetry ==
    \/ Next
    \/ NewPass

----------------------------------------------------------------------------
(* Specifications *)

AllConfigs == [ConfigKeys -> ConfigValues]

\* the configuration of the tests: every key set
TestConfig == [k \in ConfigKeys |-> "x"]

\* passes over every mailbox
Init ==
    InitFrom({TestConfig}, {TokenFile("file", <<"t">>)}, {<<Collection("x", "u1")>>},
             Mailboxes)

Spec == Init /\ [][Next]_vars

\* a message without attachment, then one with an attachment
SmallMailbox ==
    <<[msg |-> Message("bytes", "plain", <<>>), seen |-> FALSE],
      [msg |-> Message("bytes", "plain", <<PdfA>>), seen |-> FALSE]>>

\* every configuration and every token file, over one mailbox
InitConfig == InitFrom(AllConfigs, TokenFiles, {<<Collection("x", "u1")>>}, {SmallMailbox})

SpecConfig == InitConfig /\ [][Next]_vars

\* two attachments in one message
TwoAttachments == <<[msg |-> Message("bytes", "plain", <<PdfA, PdfB>>), seen |-> FALSE]>>

\* the destination folder given or empty
UploadConfigs ==
    {[TestConfig EXCEPT !["remarkable_dest_folder"] = d] : d \in {"", "x"}}

\* every folder listing, over two mailboxes
InitUpload ==
    InitFrom(UploadConfigs, {TokenFile("file", <<"t">>)}, FolderListings,
             {SmallMailbox, TwoAttachments})

SpecUpload == InitUpload /\ [][Next]_vars

\* two attachments with the same filename in one message
SameNameTwice == <<[msg |-> Message("bytes", "plain", <<PdfA, PdfA>>), seen |-> FALSE]>>

\* two messages with one attachment each
TwoMessages ==
    <<[msg |-> Message("bytes", "plain", <<PdfA>>), seen |-> FALSE],
      [msg |-> Message("bytes", "plain", <<PdfB>>), seen |-> FALSE]>>

\* repeated runs over four mailboxes
InitRetry ==
    InitFrom({TestConfig}, {TokenFile("file", <<"t">>)}, {<<Collection("x", "u1")>>},
             {SmallMailbox, TwoAttachments, SameNameTwice, TwoMessages})

SpecRetry == InitRetry /\ [][NextRetry]_vars

----------------------------------------------------------------------------
(* Properties of the pass *)

MsgIds == DOMAIN mailbox

\* the upload_to_remarkable calls made for message i, in order
UploadsOf(i) == SelectSeq(uploadLog, LAMBDA e : e.msg = i)

AllSucceeded(ups) == \A k \in DOMAIN ups : ups[k].ok
SomeFailed(ups) == \E k \in DOMAIN ups : ~ups[k].ok

Issued(name, i) == \E k \in DOMAIN imapLog : imapLog[k] = Cmd(name, i)

\* the number of commands name issued for message i
CountIssued(name, i) == Cardinality({k \in DOMAIN imapLog : imapLog[k] = Cmd(name, i)})

\* the extraction finished for message i
Extracted(i) == \E k \in DOMAIN extractLog : extractLog[k].msg = i

\* downloaded_files of message i
PathsOf(i) == extractLog[CHOOSE k \in DOMAIN extractLog : extractLog[k].msg = i].paths

\* the for loop has moved past message i
Completed(i) == \E p \in DOMAIN unread : unread[p] = i /\ p < idx

PassOver == pc \in {"finally", "returned"}

OneOfTwoFailed(i) ==
    /\ Extracted(i)
    /\ Len(PathsOf(i)) = 2
    /\ Len(UploadsOf(i)) = 2
    /\ UploadsOf(i)[1].ok # UploadsOf(i)[2].ok

\* C2: when one of the two uploads of a message succeeded and the other failed, the
\* scratch file of the failed attachment exists and that of the successful one does
\* not, as soon as both uploads are over, and the message is unread.
C2_FailedScratchFileKept ==
    (pc = "decide" /\ OneOfTwoFailed(unread[idx])) =>
        LET ups == UploadsOf(unread[idx])
        IN  /\ \A k \in 1..2 : ups[k].ok => scratch[ups[k].path] = NoFile
            /\ \A k \in 1..2 : ~ups[k].ok => scratch[ups[k].path] # NoFile
            /\ ~mailbox[unread[idx]].seen

\* both uploads of a two-attachment message are over, one succeeded, one failed
C2_Witness == pc = "decide" /\ OneOfTwoFailed(unread[idx])

\* C3: a message whose extraction yields no attachment gets the set-read-flag
\* command and no upload call, and once the command has returned the loop is past
\* the message: the next id is fetched, or the pass returns True after the last.
C3_NoAttachmentMarkedRead ==
    \A i \in MsgIds :
        (Extracted(i) /\ PathsOf(i) = <<>>) =>
            /\ UploadsOf(i) = <<>>
            /\ (pc = "noattach" /\ unread[idx] = i) \/ CountIssued("store", i) = 1
            /\ mailbox[i].seen =>
                 /\ Completed(i)
                 /\ \A p \in DOMAIN unread :
                      (unread[p] = i /\ p < Len(unread) /\ pc # "fetch")
                          => Issued("fetch", unread[p + 1])
                 /\ (unread[Len(unread)] = i /\ pc # "fetch") => (PassOver /\ result = "True")

\* the first message had no attachment and was marked read, and the second was fetched
C3_Witness ==
    /\ Len(unread) = 2
    /\ Extracted(unread[1]) /\ PathsOf(unread[1]) = <<>>
    /\ mailbox[unread[1]].seen
    /\ Issued("fetch", unread[2])

\* the pass body ended without an exception
NoException == raised = "none"

\* C4: an exception raised in upload_to_remarkable makes the call return False and
\* is not raised into process_emails; after a failed upload the other attachments
\* of the message are still submitted, the later messages are still fetched, and
\* the pass returns True, unless an exception of another origin ends the pass.
C4_UploadFailureDoesNotAbort ==
    /\ raised # "upload"
    /\ (lastStage \in {"open", "new_pdf", "upload"}) => ~uploadLog[Len(uploadLog)].ok
    /\ \A i \in MsgIds :
        LET ups == UploadsOf(i)
        IN  SomeFailed(ups) =>
              /\ (pc = "upload" /\ unread[idx] = i) \/ Len(ups) = Len(PathsOf(i))
              /\ (pc = "returned" /\ NoException) =>
                   /\ result = "True"
                   /\ \A p \in DOMAIN unread : Issued("fetch", unread[p])

\* the first attachment of the first message failed, its second attachment was
\* submitted, the second message was processed, its last upload failing at
\* Document.new_pdf, and the pass returned True
C4_Witness ==
    /\ pc = "returned"
    /\ result = "True"
    /\ Len(unread) = 2
    /\ Len(UploadsOf(unread[1])) = 2
    /\ ~UploadsOf(unread[1])[1].ok
    /\ UploadsOf(unread[1])[2].ok
    /\ UploadsOf(unread[2]) # <<>>
    /\ lastStage = "new_pdf"

\* C5: when process_emails has returned and the connection had been opened, logout
\* was called on it, once, as the last command.
C5_LogoutOnEveryPath ==
    (pc = "returned" /\ mail # "none") =>
        /\ mail = "loggedout"
        /\ CountIssued("logout", 0) = 1
        /\ imapLog[Len(imapLog)] = Cmd("logout", 0)

\* the pass ended by an IMAP error at store and the connection was logged out
C5_Witness ==
    /\ pc = "returned"
    /\ raised = "imap"
    /\ mail = "loggedout"
    /\ Len(imapLog) >= 2
    /\ imapLog[Len(imapLog) - 1].cmd = "store"

\* the search returned no id
SearchReturnedNothing ==
    /\ Issued("search", 0)
    /\ NoException
    /\ unread = <<>>

\* C10: when the search returns no id, the pass returns True and has issued no fetch
\* and no set-read-flag command and made no upload call.
C10_NoUnreadIsNoOp ==
    (SearchReturnedNothing /\ pc = "returned") =>
        /\ result = "True"
        /\ \A k \in DOMAIN imapLog : imapLog[k].cmd \notin {"fetch", "store"}
        /\ uploadLog = <<>>
        /\ cloud = <<>>
        /\ extractLog = <<>>

\* a pass over an empty mailbox has returned
C10_Witness == SearchReturnedNothing /\ pc = "returned" /\ mailbox = <<>>

----------------------------------------------------------------------------
(* Properties of the construction and of the storage set-up *)

\* process_emails has been entered
PassBegun == pc \notin {"new", "ctor_error", "constructed"}

\* C6: when the storage set-up returns no client, process_emails returns False at
\* once: no connection attempt and no IMAP command is made, and no message changes.
C6_SetupFailureOpensNoMailbox ==
    (PassBegun /\ ~rmApi.client) =>
        /\ pc = "returned"
        /\ result = "False"
        /\ mail = "none"
        /\ imapLog = <<>>
        /\ \A i \in MsgIds : ~mailbox[i].seen

\* a pass returned after the token was neither in the configuration nor on disk
C6_Witness ==
    /\ pc = "returned"
    /\ ~rmApi.client
    /\ ~Truthy(config["remarkable_token"])
    /\ tokenFile.state = "missing"
    /\ result = "False"

\* the positions of the required keys that the configuration lacks
AbsentKeys == {i \in 1..Len(required_keys) : config[required_keys[i]] = Absent}

\* C7: the constructor raises exactly when a required key is absent or the password
\* is empty; with keys absent the error names the first absent key in the order of
\* required_keys; nothing was connected, read or written before it returned or raised.
C7_ConstructorValidates ==
    (pc \in {"ctor_error", "constructed"}) =>
        /\ pc = "ctor_error" <=> (AbsentKeys # {} \/ config["email_password"] = "")
        /\ AbsentKeys # {} =>
             /\ ctorError.error = "missing"
             /\ \E i \in AbsentKeys :
                  /\ ctorError.key = required_keys[i]
                  /\ \A j \in AbsentKeys : i <= j
        /\ (AbsentKeys = {} /\ config["email_password"] = "") =>
             ctorError = [error |-> "password", key |-> "email_password"]
        /\ imapLog = <<>> /\ uploadLog = <<>> /\ mail = "none"
        /\ ~rmApi.client /\ scratch = NoScratch

\* the constructor raised for a configuration lacking two keys, naming the first
C7_Witness ==
    /\ pc = "ctor_error"
    /\ config["email_username"] = Absent
    /\ config["remarkable_dest_folder"] = Absent
    /\ config["imap_server"] # Absent
    /\ ctorError.key = "email_username"

\* C8 as stated: when a pass begins, every required key is present and non-empty.
C8_RequiredKeysNonEmpty ==
    (pc = "constructed" \/ PassBegun) =>
        \A k \in RequiredKeySet : Truthy(config[k])

\* C8, amended: when a pass begins, every required key is present, and the password
\* is non-empty.
C8_RequiredKeysPresent ==
    (pc = "constructed" \/ PassBegun) =>
        /\ \A k \in RequiredKeySet : config[k] # Absent
        /\ Truthy(config["email_password"])

\* the environment sets EMAIL_PASSWORD and nothing else
PasswordOnlyEnv == [k \in ConfigKeys |-> IF k = "email_password" THEN "x" ELSE Absent]

\* a pass has begun with the configuration load_config builds from that
\* environment, whose username is empty
C8_Witness ==
    /\ PassBegun
    /\ config = load_config(PasswordOnlyEnv)
    /\ config["email_username"] = ""

\* C9: the client's token is the configuration's when that is non-empty and the
\* trimmed contents of the token file otherwise, and no client is returned with an
\* empty token.
C9_TokenResolved ==
    rmApi.client =>
        /\ IF Truthy(config["remarkable_token"])
           THEN rmApi.token = ConfigToken
           ELSE /\ tokenFile.state = "file"
                /\ rmApi.token = Strip(tokenFile.contents)
                /\ \A k \in DOMAIN rmApi.token :
                     (k = 1 \/ k = Len(rmApi.token)) => rmApi.token[k] \notin Whitespace
        /\ rmApi.token # <<>>

\* a client was returned with the token of a file that had white space around it
C9_Witness ==
    /\ rmApi.client
    /\ ~Truthy(config["remarkable_token"])
    /\ tokenFile.contents = <<" ", "t", "\n">>
    /\ rmApi.token = <<"t">>

----------------------------------------------------------------------------
(* Properties of the upload *)

\* the positions in the listing of the folders named as the destination
DestMatches ==
    {k \in DOMAIN folders : folders[k].visible_name = config["remarkable_dest_folder"]}

OkUploads == SelectSeq(uploadLog, LAMBDA e : e.ok)

\* C11: every upload call that returned success submitted one document, named
\* after the file; with a destination given, its parent is the identifier of the
\* first folder of that name in listing order, and it is unset when no folder has
\* that name (or no destination is given); a call fails only where a statement raised.
C11_ParentIsFirstMatch ==
    /\ Len(cloud) = Len(OkUploads)
    /\ \A k \in DOMAIN cloud :
        /\ cloud[k].name = DocName(OkUploads[k].path)
        /\ IF Truthy(config["remarkable_dest_folder"]) /\ DestMatches # {}
           THEN \E m \in DestMatches :
                  /\ cloud[k].parent = folders[m].uuid
                  /\ \A j \in DestMatches : m <= j
           ELSE cloud[k].parent = None
    /\ (uploadLog # <<>> /\ lastStage = "done") => uploadLog[Len(uploadLog)].ok

\* two folders have the destination's name and a document was filed under the first
C11_Witness ==
    /\ folders = <<Collection("x", "u1"), Collection("x", "u2")>>
    /\ config["remarkable_dest_folder"] = "x"
    /\ cloud # <<>>
    /\ cloud[1].parent = "u1"

\* no folder has the destination's name and a document was submitted without parent
C11_WitnessNoMatch ==
    /\ folders = <<>>
    /\ config["remarkable_dest_folder"] = "x"
    /\ cloud # <<>>
    /\ cloud[1].parent = None
    /\ uploadLog[1].ok

----------------------------------------------------------------------------
(* Properties of the handling of single messages *)

\* the Subject header of message i cannot be decoded
UndecodableSubject(i) ==
    /\ mailbox[i].msg.raw = "bytes"
    /\ ~DecodeSubjectReturns(mailbox[i].msg.subject)

\* C12: a message whose subject cannot be decoded (no Subject header, unknown
\* charset) does not end the pass: once it has been fetched its attachments are
\* extracted, unless an IMAP error ends the pass.
C12_SubjectFailureDoesNotAbort ==
    \A i \in MsgIds :
        (UndecodableSubject(i) /\ Issued("fetch", i) /\ raised # "imap") =>
            \/ pc = "parse" /\ unread[idx] = i
            \/ Extracted(i)

\* a message without Subject header has been fetched and is about to be parsed
C12_Witness ==
    /\ pc = "parse"
    /\ mailbox[unread[idx]].msg.subject = "missing"

\* message i has a payload that is not bytes
NonBytes(i) == mailbox[i].msg.raw = "nonbytes"

\* the last command issued before the logout
LastCommand ==
    LET n == Len(imapLog)
    IN  IF imapLog[n] = Cmd("logout", 0) THEN imapLog[n - 1] ELSE imapLog[n]

\* the fetch of message i has been answered
FetchReturned(i) ==
    /\ Issued("fetch", i)
    /\ ~(raised = "imap" /\ LastCommand = Cmd("fetch", i))

----------------------------------------------------------------------------
(* Properties of a whole pass *)

\* the positions of the qualifying parts of message i
QualifyingParts(i) ==
    {j \in DOMAIN mailbox[i].msg.parts : Qualifies(mailbox[i].msg.parts[j])}

\* the documents in the storage service that hold the bytes of part j of message i
SubmissionsOf(i, j) == {c \in DOMAIN cloud : cloud[c].data = <<i, j>>}

\* the pass returned without an exception, every fetch gave a message in bytes
\* and the storage client failed in no call
UndisturbedPass ==
    /\ pc = "returned"
    /\ raised = "none"
    /\ ~refused
    /\ \A k \in DOMAIN unread : mailbox[unread[k]].msg.raw = "bytes"

\* C15: when the storage service accepts every submission and no mailbox or
\* file-system error occurs, at the end of one pass every message listed as
\* unread is marked read, every qualifying PDF part of these messages has been
\* submitted once with its own bytes, and no scratch file remains; two parts of a
\* message with the same filename included.
C15_UndisturbedPassIsComplete ==
    UndisturbedPass =>
        /\ \A k \in DOMAIN unread : mailbox[unread[k]].seen
        /\ \A k \in DOMAIN unread : \A j \in QualifyingParts(unread[k]) :
               Cardinality(SubmissionsOf(unread[k], j)) = 1
        /\ scratch = NoScratch

\* an undisturbed pass over a message with two attachments named a.pdf
C15_Witness ==
    /\ UndisturbedPass
    /\ \E k \in DOMAIN unread :
         /\ mailbox[unread[k]].msg.parts = <<PdfA, PdfA>>
         /\ Len(UploadsOf(unread[k])) = 2

----------------------------------------------------------------------------
(* Properties of repeated passes *)

\* the upload_to_remarkable calls the previous run made for message i
PrevUploadsOf(i) == SelectSeq(prevUploads, LAMBDA e : e.msg = i)

\* the previous run left message i unread because an upload failed
FailedBefore(i) == SomeFailed(PrevUploadsOf(i))

\* the search of this pass has been answered
SearchAnswered ==
    /\ Issued("search", 0)
    /\ ~(raised = "imap" /\ LastCommand = Cmd("search", 0))

Listed(i) == \E k \in DOMAIN unread : unread[k] = i

UploadPaths(ups) == [k \in DOMAIN ups |-> ups[k].path]

====
